---- MODULE Spec2Model ----
\* A model of package_dependecies.py: the reconciliation of a distro manifest
\* against the file trees of the repositories it names, run by a bounded pool
\* of worker threads that share four counters, one output file and one scratch
\* directory.
\*
\* Python strings are modelled as sequences of one-character strings, so that
\* rstrip, split, the f-string formatting of paths, URLs and output lines are
\* computed character by character as the code computes them.
EXTENDS Integers, Sequences, FiniteSets, TLC

\* ------------------------------------------------------------------ bounds
\* Largest number of manifest entries of a run.
NumRepos == 2
\* Largest value of the max_threads argument.
MaxThreads == 2
\* Largest number of packages of one repository in the runs that start at
\* the append: 119 output lines of 69 bytes are the least batch that does
\* not fit into one chunk of the text layer.
BigBatch == 119

\* ------------------------------------------------------- string primitives
SLASH == <<"/">>
NEWLINE == <<"\n">>
ARROW == <<" ", "=", ">", " ">>
DOT_GIT_CHARS == {".", "g", "i", "t"}
PACKAGE_XML == <<"p", "a", "c", "k", "a", "g", "e", ".", "x", "m", "l">>
MAIN == <<"m", "a", "i", "n">>
MASTER == <<"m", "a", "s", "t", "e", "r">>
RAW_PREFIX == <<"h", "t", "t", "p", "s", ":", "/", "/", "r", "a", "w", ".", "g", "i", "t", "h", "u", "b", "u", "s", "e", "r", "c", "o", "n", "t", "e", "n", "t", ".", "c", "o", "m", "/">>

Range(s) == {s[i] : i \in 1..Len(s)}

Last(s) == s[Len(s)]

\* str.rstrip(chars): drop trailing characters while they belong to chars.
RECURSIVE RStrip(_, _)
RStrip(s, chars) ==
  IF s = <<>> THEN s
  ELSE IF Last(s) \in chars THEN RStrip(SubSeq(s, 1, Len(s) - 1), chars)
  ELSE s

\* str.split(sep) for a one-character separator: always at least one part.
RECURSIVE Split(_, _)
Split(s, sep) ==
  IF \E i \in 1..Len(s) : s[i] = sep
  THEN LET i == CHOOSE j \in 1..Len(s) : s[j] = sep /\ \A k \in 1..(j - 1) : s[k] # sep
       IN <<SubSeq(s, 1, i - 1)>> \o Split(SubSeq(s, i + 1, Len(s)), sep)
  ELSE <<s>>

\* ------------------------------------------------------------------ inputs
FOO == <<"f", "o", "o">>
BAR == <<"b", "a", "r">>
RQT == <<"r", "q", "t">>
AB == <<"a", "b">>
EF == <<"e", "f">>
XY == <<"x", "y">>
DIR_A == <<"a">>
DIR_B == <<"b">>
README == <<"R", "E", "A", "D", "M", "E">>
URL_BASE == <<"h", "t", "t", "p", "s", ":", "/", "/", "h", "/", "o", "/">>
DOT_GIT == <<".", "g", "i", "t">>
URL_RQT == URL_BASE \o RQT \o DOT_GIT
URL_AB == URL_BASE \o AB \o DOT_GIT
URL_EF == URL_BASE \o EF \o DOT_GIT
URL_XY == URL_BASE \o XY \o DOT_GIT
\* An empty or missing url: repo_data.get("url") is "" or None, both falsy.
NO_URL == <<>>

\* One manifest entry together with the upstream state of its repository:
\* url, version and packages are the fields of repo_data; files is the list
\* of paths `git ls-tree -r --name-only` prints for the branch.  The listings
\* are listings git can print: no path is a proper prefix of another.
Entry(url, packages, files) ==
  [url |-> url, version |-> MAIN, packages |-> packages, files |-> files]

\* The listing of the repository ab: the manifest file at the root and in
\* two folders named b.
AB_FILES ==
  <<PACKAGE_XML,
    DIR_A \o SLASH \o DIR_B \o SLASH \o PACKAGE_XML,
    DIR_A \o SLASH \o README,
    BAR \o SLASH \o DIR_B \o SLASH \o PACKAGE_XML>>

\* One url has one tree: entries that name the same repository (the two
\* entries for ab, which declare different packages of it) see the same
\* listing.
Entries ==
  { Entry(NO_URL, <<FOO>>, <<>>),
    Entry(URL_RQT, <<RQT>>, <<PACKAGE_XML>>),
    Entry(URL_AB, <<AB>>, AB_FILES),
    Entry(URL_AB, <<DIR_B, FOO>>, AB_FILES),
    Entry(URL_XY, <<XY>>, <<PACKAGE_XML \o SLASH \o README>>),
    Entry(URL_EF, <<FOO>>, <<>>) }

\* What the two git subprocesses of one fetch can do.
FetchOutcomes == {"ok", "ls_tree_failed", "clone_raised"}

\* ----------------------------------------------------- fetch_tree_with_git
\* A PathTree is a dict in insertion order: a sequence of items, each with a
\* key and a value that is either the marker "file" or a nested dict.
FileValue == [file |-> TRUE, kids |-> <<>>]

DirValue(kids) == [file |-> FALSE, kids |-> kids]

IndexOfKey(tree, key) ==
  IF \E i \in 1..Len(tree) : tree[i].key = key
  THEN CHOOSE i \in 1..Len(tree) : tree[i].key = key
  ELSE 0

\* for part in parts[:-1]: current = current.setdefault(part, {})
\* current[parts[-1]] = "file"
RECURSIVE InsertPath(_, _)
InsertPath(tree, parts) ==
  LET i == IndexOfKey(tree, parts[1]) IN
  IF Len(parts) = 1
  THEN IF i = 0 THEN Append(tree, [key |-> parts[1], value |-> FileValue])
       ELSE [tree EXCEPT ![i].value = FileValue]
  ELSE IF i = 0
       THEN Append(tree, [key |-> parts[1], value |-> DirValue(InsertPath(<<>>, Tail(parts)))])
       ELSE [tree EXCEPT ![i].value = DirValue(InsertPath(tree[i].value.kids, Tail(parts)))]

RECURSIVE BuildTree(_, _)
BuildTree(tree, files) ==
  IF files = <<>> THEN tree
  ELSE BuildTree(InsertPath(tree, Split(Head(files), "/")), Tail(files))

\* parts = repo_url.rstrip('.git').split('/'); owner, repo = parts[-2], parts[-1]
UrlParts(repo_url) == Split(RStrip(repo_url, DOT_GIT_CHARS), "/")

Owner(repo_url) == UrlParts(repo_url)[Len(UrlParts(repo_url)) - 1]

Repo(repo_url) == Last(UrlParts(repo_url))

\* A fetch that parses the listing without looking at the exit status.
fetch_tree_IgnoreStatus(files, branch, outcome) ==
  [tree |-> BuildTree(<<>>, files), none |-> FALSE, branch |-> branch]

\* The tree and branch returned for one outcome of the subprocesses (the
\* clone raising is handled by the caller's action): (None, None) when the
\* listing fails, else the parsed tree.
fetch_tree_with_git(files, branch, outcome) ==
  IF outcome = "ls_tree_failed"
  THEN [tree |-> <<>>, none |-> TRUE, branch |-> <<>>]
  ELSE [tree |-> BuildTree(<<>>, files), none |-> FALSE, branch |-> branch]

\* -------------------------------------------------- find_all_files_in_tree
\* A search that names a match after the first segment of its prefix, its
\* top-level directory, instead of the last.
RECURSIVE find_all_files_TopFolder(_, _, _)
find_all_files_TopFolder(tree, filename, path) ==
  IF tree = <<>> THEN <<>>
  ELSE LET key == Head(tree).key
           value == Head(tree).value
           current_path == IF path # <<>> THEN path \o SLASH \o key ELSE key
           folder_name == IF "/" \in Range(path) THEN Head(Split(path, "/")) ELSE path
           here == IF key = filename
                   THEN <<[folder_name |-> folder_name, path |-> current_path]>>
                   ELSE IF ~value.file
                        THEN find_all_files_TopFolder(value.kids, filename, current_path)
                        ELSE <<>>
       IN here \o find_all_files_TopFolder(Tail(tree), filename, path)

RECURSIVE find_all_files_in_tree(_, _, _)
find_all_files_in_tree(tree, filename, path) ==
  IF tree = <<>> THEN <<>>
  ELSE LET key == Head(tree).key
           value == Head(tree).value
           current_path == IF path # <<>> THEN path \o SLASH \o key ELSE key
           folder_name == IF "/" \in Range(path) THEN Last(Split(path, "/")) ELSE path
           here == IF key = filename
                   THEN <<[folder_name |-> folder_name, path |-> current_path]>>
                   ELSE IF ~value.file
                        THEN find_all_files_in_tree(value.kids, filename, current_path)
                        ELSE <<>>
       IN here \o find_all_files_in_tree(Tail(tree), filename, path)

\* ------------------------------------------------------------ create_raw_url
create_raw_url(owner, repo, branch, file_path) ==
  RAW_PREFIX \o owner \o SLASH \o repo \o SLASH \o branch \o SLASH \o file_path

\* -------------------------------------------------- get_package_dependencies
\* results[folder_name] = raw_url on a dict in insertion order.
SetItem(results, key, value) ==
  IF \E i \in 1..Len(results) : results[i].key = key
  THEN [i \in 1..Len(results) |->
          IF results[i].key = key THEN [key |-> key, value |-> value] ELSE results[i]]
  ELSE Append(results, [key |-> key, value |-> value])

\* The key a Finding is stored under: the repo name for a root-level file.
EffectiveKey(repo_url, finding) ==
  IF finding.folder_name = <<>> THEN Repo(repo_url) ELSE finding.folder_name

RECURSIVE CollectResults(_, _, _, _)
CollectResults(results, found_files, repo_url, branch) ==
  IF found_files = <<>> THEN results
  ELSE LET f == Head(found_files)
           raw_url == create_raw_url(Owner(repo_url), Repo(repo_url), branch, f.path)
       IN CollectResults(SetItem(results, EffectiveKey(repo_url, f), raw_url),
                         Tail(found_files), repo_url, branch)

\* The Findings of one fetch: none when the tree is None or empty.
FoundFiles(fetched) ==
  IF fetched.none \/ fetched.tree = <<>> THEN <<>>
  ELSE find_all_files_in_tree(fetched.tree, PACKAGE_XML, <<>>)

get_package_dependencies(repo_url, fetched) ==
  CollectResults(<<>>, FoundFiles(fetched), repo_url, fetched.branch)

\* ------------------------------------------------------------------- state
VARIABLES
  distro_data,            \* the loaded manifest, in dict order
  max_threads,            \* the pool size argument
  output_file,            \* the lines of the output file, each with its writer
  temp_dir,               \* the scratch directory: "none", "exists", "removed"
  reconciliation_report,  \* the four shared counters
  printed,                \* the report as printed, or the record of -1 before
  main_pc,                \* position of parse_and_validate_yaml
  pc,                     \* position of each unit of work
  tmp,                    \* the counter value a worker has loaded and not yet stored (0 when none)
  found_files,            \* the Findings of each worker's fetch
  dependencies,           \* the dict returned by get_package_dependencies
  idx,                    \* position of the for loop over dependencies.items()
  key_value_results,      \* each worker's local result dict
  repo_download_path,     \* the scratch subdirectory each worker's clone names
  fetch_outcome,          \* what each worker's git subprocesses did
  flushed                 \* how many of its lines each worker has written to the file

vars ==
  <<distro_data, max_threads, output_file, temp_dir, reconciliation_report, printed,
    main_pc, pc, tmp, found_files, dependencies, idx, key_value_results,
    repo_download_path, fetch_outcome, flushed>>

Workers == 1..Len(distro_data)

\* A worker that process_repo is executing on a pool thread.
RunningPcs == {"fetch", "loop", "loop_write", "total_write", "append", "unmatched_write", "unmatched_read"}

FinishedPcs == {"returned", "raised"}

Running == {w \in Workers : pc[w] \in RunningPcs}

AllFinished == \A w \in Workers : pc[w] \in FinishedPcs

ZeroReport == [total |-> 0, matched |-> 0, mismatched |-> 0, unmatched |-> 0]

NotPrinted == [total |-> -1, matched |-> -1, mismatched |-> -1, unmatched |-> -1]

\* A line some earlier run left in the output file.
StaleLine == [by |-> 0, text |-> FOO \o ARROW \o RAW_PREFIX \o NEWLINE]

Init ==
  /\ \E n \in 1..NumRepos : distro_data \in [1..n -> Entries]
  /\ max_threads \in 1..MaxThreads
  /\ output_file \in {<<>>, <<StaleLine>>}
  /\ temp_dir = "none"
  /\ reconciliation_report = ZeroReport
  /\ printed = NotPrinted
  /\ main_pc = "start"
  /\ pc = [w \in Workers |-> "unsubmitted"]
  /\ tmp = [w \in Workers |-> 0]
  /\ found_files = [w \in Workers |-> <<>>]
  /\ dependencies = [w \in Workers |-> <<>>]
  /\ idx = [w \in Workers |-> 1]
  /\ key_value_results = [w \in Workers |-> <<>>]
  /\ repo_download_path = [w \in Workers |-> <<>>]
  /\ fetch_outcome = [w \in Workers |-> "none"]
  /\ flushed = [w \in Workers |-> 0]

\* ------------------------------------------------- parse_and_validate_yaml
\* Lines 99-109: delete the output file, load the manifest, make the scratch
\* directory, zero the counters.
Begin ==
  /\ main_pc = "start"
  /\ output_file' = <<>>
  /\ temp_dir' = "exists"
  /\ reconciliation_report' = ZeroReport
  /\ main_pc' = "submit"
  /\ UNCHANGED <<distro_data, max_threads, printed, pc, tmp, found_files, dependencies,
                 idx, key_value_results,
                 repo_download_path, fetch_outcome, flushed>>

\* Lines 140-141: executor.submit for the next item of distro_data.items().
Submit ==
  /\ main_pc = "submit"
  /\ \E w \in Workers :
       /\ pc[w] = "unsubmitted"
       /\ \A v \in Workers : v < w => pc[v] # "unsubmitted"
       /\ pc' = [pc EXCEPT ![w] = "queued"]
  /\ UNCHANGED <<distro_data, max_threads, output_file, temp_dir, reconciliation_report,
                 printed, main_pc, tmp, found_files, dependencies, idx, key_value_results,
                 repo_download_path, fetch_outcome, flushed>>

\* A pool left with shutdown(wait=False): nothing is joined.
PoolDrained_NoWait == TRUE

\* A pool whose exit re-raises a worker's exception instead of the report
\* being reached: only work that returned lets the caller go on.
PoolDrained_Propagates == \A w \in Workers : pc[w] = "returned"

\* Whether leaving the with block may proceed: shutdown(wait=True) joins
\* every pool thread, and a thread exits only when the work queue is empty.
PoolDrained == AllFinished

\* Line 139, __exit__ of the with block, entered when the for loop is over.
ExitPool ==
  /\ main_pc = "submit"
  /\ \A w \in Workers : pc[w] # "unsubmitted"
  /\ PoolDrained
  /\ main_pc' = "finally"
  /\ UNCHANGED <<distro_data, max_threads, output_file, temp_dir, reconciliation_report,
                 printed, pc, tmp, found_files, dependencies, idx, key_value_results,
                 repo_download_path, fetch_outcome, flushed>>

\* Line 144: shutil.rmtree(temp_dir).
Rmtree ==
  /\ main_pc = "finally"
  /\ temp_dir' = "removed"
  /\ main_pc' = "report"
  /\ UNCHANGED <<distro_data, max_threads, output_file, reconciliation_report, printed,
                 pc, tmp, found_files, dependencies, idx, key_value_results,
                 repo_download_path, fetch_outcome, flushed>>

\* Lines 147-151: print the four counters.
PrintReport ==
  /\ main_pc = "report"
  /\ printed' = reconciliation_report
  /\ main_pc' = "done"
  /\ UNCHANGED <<distro_data, max_threads, output_file, temp_dir, reconciliation_report,
                 pc, tmp, found_files, dependencies, idx, key_value_results,
                 repo_download_path, fetch_outcome, flushed>>

\* ------------------------------------------------------------ process_repo
\* The branch handed to git: repo_data.get("version", "main"), and the
\* hosting API's default branch (or the fallback "main") when it is falsy.
Branches(version) == IF version = <<>> THEN {MAIN, MASTER} ELSE {version}

\* A pool with no limit on its threads.
IdleThread_Unbounded == TRUE

\* ThreadPoolExecutor(max_threads) starts a thread for a submitted item only
\* while fewer than max_threads exist, so an item leaves the queue only when
\* fewer than max_threads items are being executed.
IdleThread == Cardinality(Running) < max_threads

\* A pool thread takes the oldest queued work item.  Lines 113-118: the url
\* test; a truthy url goes on to get_package_dependencies.
StartWork(w) ==
  /\ pc[w] = "queued"
  /\ \A v \in Workers : v < w => pc[v] \notin {"unsubmitted", "queued"}
  /\ IdleThread
  /\ pc' = [pc EXCEPT ![w] = IF distro_data[w].url = <<>> THEN "unmatched_read" ELSE "fetch"]
  /\ UNCHANGED <<distro_data, max_threads, output_file, temp_dir, reconciliation_report,
                 printed, main_pc, tmp, found_files, dependencies, idx, key_value_results,
                 repo_download_path, fetch_outcome, flushed>>

\* os.path.join(temp_dir, f"{owner}-{repo}-{branch}-bare"): the part below
\* temp_dir, which is the same directory for every worker of the run.
BARE == <<"b", "a", "r", "e">>
DASH == <<"-">>
RepoDownloadPath(repo_url, branch) ==
  Owner(repo_url) \o DASH \o Repo(repo_url) \o DASH \o branch \o DASH \o BARE

\* The subdirectories of temp_dir that a finished clone has filled.
Cloned == {repo_download_path[v] : v \in {u \in Workers : fetch_outcome[u] \in {"ok", "ls_tree_failed"}}}

\* A clone run with check=False: no exit status raises.
CloneRaises_Unchecked(result) == FALSE

\* subprocess.run(..., check=True) of line 32 raises CalledProcessError when
\* git clone exits non-zero.
CloneRaises(result) == result \in {"clone_raised", "dir_exists"}

\* Lines 120-122: the branch, then fetch_tree_with_git inside
\* get_package_dependencies.  git clone refuses a destination that exists
\* and is not empty, and has check=True, so a clone into a subdirectory
\* another worker has filled raises like any failing clone, out of
\* process_repo into the future.  Two clones of one destination that
\* overlap in time are taken in the order in which git finds the directory.
Fetch(w) ==
  /\ pc[w] = "fetch"
  /\ \E outcome \in FetchOutcomes, branch \in Branches(distro_data[w].version) :
       LET path == RepoDownloadPath(distro_data[w].url, branch)
           result == IF path \in Cloned THEN "dir_exists" ELSE outcome
           fetched == fetch_tree_with_git(distro_data[w].files, branch, result)
       IN /\ repo_download_path' = [repo_download_path EXCEPT ![w] = path]
          /\ fetch_outcome' = [fetch_outcome EXCEPT ![w] = result]
          /\ IF CloneRaises(result)
             THEN /\ pc' = [pc EXCEPT ![w] = "raised"]
                  /\ UNCHANGED <<found_files, dependencies>>
             ELSE /\ found_files' = [found_files EXCEPT ![w] = FoundFiles(fetched)]
                  /\ dependencies' =
                       [dependencies EXCEPT
                          ![w] = get_package_dependencies(distro_data[w].url, fetched)]
                  /\ pc' = [pc EXCEPT ![w] = "loop"]
  /\ UNCHANGED <<distro_data, max_threads, output_file, temp_dir, reconciliation_report,
                 printed, main_pc, tmp, idx, key_value_results, flushed>>

\* Line 117, first half: load reconciliation_report["unmatched"].
UnmatchedRead(w) ==
  /\ pc[w] = "unmatched_read"
  /\ tmp' = [tmp EXCEPT ![w] = reconciliation_report.unmatched]
  /\ pc' = [pc EXCEPT ![w] = "unmatched_write"]
  /\ UNCHANGED <<distro_data, max_threads, output_file, temp_dir, reconciliation_report,
                 printed, main_pc, found_files, dependencies, idx, key_value_results,
                 repo_download_path, fetch_outcome, flushed>>

\* Line 117, second half: store the sum; line 118: return.
UnmatchedWrite(w) ==
  /\ pc[w] = "unmatched_write"
  /\ reconciliation_report' = [reconciliation_report EXCEPT !.unmatched = tmp[w] + 1]
  /\ tmp' = [tmp EXCEPT ![w] = 0]
  /\ pc' = [pc EXCEPT ![w] = "returned"]
  /\ UNCHANGED <<distro_data, max_threads, output_file, temp_dir, printed, main_pc,
                 found_files, dependencies, idx, key_value_results,
                 repo_download_path, fetch_outcome, flushed>>

\* folder_name in repo_data.get("packages", [])
IsDeclared(w, folder_name) == folder_name \in Range(distro_data[w].packages)

\* The counter lines 124-128 pick for one item of dependencies.
CounterFor(w, folder_name) == IF IsDeclared(w, folder_name) THEN "matched" ELSE "mismatched"

\* A loop that also visits the declared packages.
LoopItems_DeclaredToo(w) ==
  dependencies[w] \o
    [i \in 1..Len(distro_data[w].packages) |-> [key |-> distro_data[w].packages[i], value |-> <<>>]]

\* The items the for loop of line 123 visits.
LoopItems(w) == dependencies[w]

\* Lines 123-128, first half of the += of the current item: load the counter.
LoopRead(w) ==
  /\ pc[w] = "loop"
  /\ idx[w] <= Len(LoopItems(w))
  /\ tmp' = [tmp EXCEPT ![w] = reconciliation_report[CounterFor(w, LoopItems(w)[idx[w]].key)]]
  /\ pc' = [pc EXCEPT ![w] = "loop_write"]
  /\ UNCHANGED <<distro_data, max_threads, output_file, temp_dir, reconciliation_report,
                 printed, main_pc, found_files, dependencies, idx, key_value_results,
                 repo_download_path, fetch_outcome, flushed>>

\* Lines 123-128, second half: store the sum, record a match, next item.
LoopWrite(w) ==
  /\ pc[w] = "loop_write"
  /\ LET item == LoopItems(w)[idx[w]] IN
       /\ reconciliation_report' =
            [reconciliation_report EXCEPT ![CounterFor(w, item.key)] = tmp[w] + 1]
       /\ key_value_results' =
            [key_value_results EXCEPT
               ![w] = IF IsDeclared(w, item.key) THEN SetItem(@, item.key, item.value) ELSE @]
  /\ tmp' = [tmp EXCEPT ![w] = 0]
  /\ idx' = [idx EXCEPT ![w] = @ + 1]
  /\ pc' = [pc EXCEPT ![w] = "loop"]
  /\ UNCHANGED <<distro_data, max_threads, output_file, temp_dir, printed, main_pc,
                 found_files, dependencies,
                 repo_download_path, fetch_outcome, flushed>>

\* Line 131, first half, after the loop: load reconciliation_report["total"].
TotalRead(w) ==
  /\ pc[w] = "loop"
  /\ idx[w] > Len(LoopItems(w))
  /\ tmp' = [tmp EXCEPT ![w] = reconciliation_report.total]
  /\ pc' = [pc EXCEPT ![w] = "total_write"]
  /\ UNCHANGED <<distro_data, max_threads, output_file, temp_dir, reconciliation_report,
                 printed, main_pc, found_files, dependencies, idx, key_value_results,
                 repo_download_path, fetch_outcome, flushed>>

\* Line 131, second half: store total + len(packages).
TotalWrite(w) ==
  /\ pc[w] = "total_write"
  /\ reconciliation_report' =
       [reconciliation_report EXCEPT !.total = tmp[w] + Len(distro_data[w].packages)]
  /\ tmp' = [tmp EXCEPT ![w] = 0]
  /\ pc' = [pc EXCEPT ![w] = "append"]
  /\ UNCHANGED <<distro_data, max_threads, output_file, temp_dir, printed, main_pc,
                 found_files, dependencies, idx, key_value_results,
                 repo_download_path, fetch_outcome, flushed>>

\* f"{key} => {value}\n"
FormatLine(key, value) == key \o ARROW \o value \o NEWLINE

\* The text layer of a file opened by open(output_file, "a") collects the
\* encoded lines handed to write() and passes them on when the next line
\* would take them past this many bytes, and at close.
CHUNK_SIZE == 8192

\* The last line of the chunk whose lines up to line last hold bytes bytes:
\* lines are added while the chunk stays within CHUNK_SIZE.
RECURSIVE ChunkEnd(_, _, _)
ChunkEnd(lines, last, bytes) ==
  IF last < Len(lines) /\ bytes + Len(lines[last + 1]) <= CHUNK_SIZE
  THEN ChunkEnd(lines, last + 1, bytes + Len(lines[last + 1]))
  ELSE last

\* The lines of the with block of lines 134-136, in dict order.
ResultLines(w) ==
  [i \in 1..Len(key_value_results[w]) |->
     FormatLine(key_value_results[w][i].key, key_value_results[w][i].value)]

\* Lines 134-136: open in append mode, write one line per result, close.
\* The lines reach the file one chunk at a time: each chunk is one write on
\* the worker's own O_APPEND descriptor, which lands whole at the end of
\* the file, and the last chunk is written by the close.  No lock is held
\* from one chunk to the next.
AppendResults(w) ==
  /\ pc[w] = "append"
  /\ LET lines == ResultLines(w)
         first == flushed[w] + 1
         last == IF first <= Len(lines) THEN ChunkEnd(lines, first, Len(lines[first]))
                 ELSE flushed[w]
     IN /\ output_file' = output_file \o
             [i \in 1..(last - flushed[w]) |-> [by |-> w, text |-> lines[flushed[w] + i]]]
        /\ flushed' = [flushed EXCEPT ![w] = last]
        /\ pc' = [pc EXCEPT ![w] = IF last = Len(lines) THEN "returned" ELSE "append"]
  /\ UNCHANGED <<distro_data, max_threads, temp_dir, reconciliation_report, printed,
                 main_pc, tmp, found_files, dependencies, idx, key_value_results,
                 repo_download_path, fetch_outcome>>

Next ==
  \/ Begin
  \/ Submit
  \/ ExitPool
  \/ Rmtree
  \/ PrintReport
  \/ \E w \in Workers : StartWork(w)
  \/ \E w \in Workers : Fetch(w)
  \/ \E w \in Workers : UnmatchedRead(w)
  \/ \E w \in Workers : UnmatchedWrite(w)
  \/ \E w \in Workers : LoopRead(w)
  \/ \E w \in Workers : LoopWrite(w)
  \/ \E w \in Workers : TotalRead(w)
  \/ \E w \in Workers : TotalWrite(w)
  \/ \E w \in Workers : AppendResults(w)

Spec == Init /\ [][Next]_vars

\* ------------------------------------------- repositories of many packages
DIGITS == <<"0", "1", "2", "3", "4", "5", "6", "7", "8", "9">>

\* The package names p001, p002, ...
PkgName(i) ==
  <<"p", DIGITS[(i \div 100) + 1], DIGITS[((i \div 10) % 10) + 1], DIGITS[(i % 10) + 1]>>

MN == <<"m", "n">>
UV == <<"u", "v">>
URL_MN == URL_BASE \o MN \o DOT_GIT
URL_UV == URL_BASE \o UV \o DOT_GIT

\* A manifest entry for a repository of n packages, each declared and each
\* with its manifest file in a folder of its name.
BigEntry(url, n) ==
  Entry(url, [i \in 1..n |-> PkgName(i)], [i \in 1..n |-> PkgName(i) \o SLASH \o PACKAGE_XML])

\* The Findings of the search in the tree of such a repository: one for
\* each package folder, in listing order.
BigFindings(n) ==
  [i \in 1..n |-> [folder_name |-> PkgName(i), path |-> PkgName(i) \o SLASH \o PACKAGE_XML]]

BatchSizes == {1, BigBatch - 1, BigBatch}

\* The items of dependencies that lines 124-126 copy to key_value_results.
MatchedItems(w, items) == SelectSeq(items, LAMBDA item : IsDeclared(w, item.key))

\* A run on a manifest of two such repositories at the moment both workers
\* have fetched their trees, gone through their loops and added to total
\* one after the other, and are about to open the output file (line 134).
InitAppend ==
  /\ \E n1, n2 \in BatchSizes : distro_data = <<BigEntry(URL_MN, n1), BigEntry(URL_UV, n2)>>
  /\ max_threads = 2
  /\ output_file = <<>>
  /\ temp_dir = "exists"
  /\ printed = NotPrinted
  /\ main_pc = "submit"
  /\ pc = [w \in Workers |-> "append"]
  /\ tmp = [w \in Workers |-> 0]
  /\ fetch_outcome = [w \in Workers |-> "ok"]
  /\ repo_download_path =
       [w \in Workers |-> RepoDownloadPath(distro_data[w].url, distro_data[w].version)]
  /\ found_files = [w \in Workers |-> BigFindings(Len(distro_data[w].packages))]
  /\ dependencies =
       [w \in Workers |->
          [i \in 1..Len(found_files[w]) |->
             [key |-> found_files[w][i].folder_name,
              value |-> create_raw_url(Owner(distro_data[w].url), Repo(distro_data[w].url),
                                       distro_data[w].version, found_files[w][i].path)]]]
  /\ idx = [w \in Workers |-> Len(dependencies[w]) + 1]
  /\ key_value_results = [w \in Workers |-> MatchedItems(w, dependencies[w])]
  /\ reconciliation_report =
       [total |-> Len(distro_data[1].packages) + Len(distro_data[2].packages),
        matched |-> Len(key_value_results[1]) + Len(key_value_results[2]),
        mismatched |-> 0,
        unmatched |-> 0]
  /\ flushed = [w \in Workers |-> 0]

NextAppend ==
  \/ \E w \in Workers : AppendResults(w)
  \/ ExitPool
  \/ Rmtree
  \/ PrintReport

\* The end of a run, from the first open of the output file on.
SpecAppend == InitAppend /\ [][NextAppend]_vars

\* The steps of the caller's thread.
MainThreadStep == Begin \/ Submit \/ ExitPool \/ Rmtree \/ PrintReport

\* The steps of the pool's threads other than waiting for git.
PoolThreadStep ==
  \E w \in Workers :
    \/ StartWork(w) \/ UnmatchedRead(w) \/ UnmatchedWrite(w)
    \/ LoopRead(w) \/ LoopWrite(w) \/ TotalRead(w) \/ TotalWrite(w) \/ AppendResults(w)

\* A worker's fetch is over: it went on to the loop, or its clone raised.
FetchReturnsOrRaises ==
  \E w \in Workers :
    pc[w] = "fetch" /\ pc' \in {[pc EXCEPT ![w] = "loop"], [pc EXCEPT ![w] = "raised"]}

\* The same run under a scheduler that does not stop: the caller's thread
\* and the pool's threads are operating-system threads, each of which keeps
\* being scheduled while it has a step to take, and every fetch returns or
\* raises (no git subprocess hangs).
FairSpec ==
  /\ Spec
  /\ WF_vars(MainThreadStep)
  /\ WF_vars(PoolThreadStep)
  /\ WF_pc(FetchReturnsOrRaises)

\* ================================================================== claims
\* What a run is expected to do, stated apart from the code's own counters.

RECURSIVE SumOver(_, _)
SumOver(f, n) == IF n = 0 THEN 0 ELSE f[n] + SumOver(f, n - 1)

\* The increments worker w has applied so far to each counter: one per loop
\* item it has written back, one to unmatched when it returned on a falsy
\* url, len(packages) to total once past line 131.
Attempted(w) ==
  LET done == {i \in 1..Len(LoopItems(w)) : i < idx[w]} IN
  [matched |-> Cardinality({i \in done : IsDeclared(w, LoopItems(w)[i].key)}),
   mismatched |-> Cardinality({i \in done : ~IsDeclared(w, LoopItems(w)[i].key)}),
   unmatched |-> IF distro_data[w].url = <<>> /\ pc[w] = "returned" THEN 1 ELSE 0,
   total |-> IF distro_data[w].url # <<>> /\ pc[w] \in {"append", "returned"}
             THEN Len(distro_data[w].packages) ELSE 0]

AttemptedSum(counter) ==
  SumOver([w \in Workers |-> Attempted(w)[counter]], Len(distro_data))

Counters == {"total", "matched", "mismatched", "unmatched"}

\* C1: under every interleaving of the workers no increment of a shared
\* counter is lost: at completion each of total, matched, mismatched and
\* unmatched equals the sum of the increments the workers applied.
C1_NoLostIncrement ==
  main_pc = "done" =>
    \A c \in Counters : reconciliation_report[c] = AttemptedSum(c)

\* C2: after a run, total equals the sum over all manifest entries, those
\* with a falsy url and those whose fetch failed included, of the length of
\* the entry's declared package list.
C2_TotalIsSumOfDeclared ==
  main_pc = "done" =>
    reconciliation_report.total =
      SumOver([w \in Workers |-> Len(distro_data[w].packages)], Len(distro_data))

\* The effective keys of the Findings of worker w's fetch.
FindingKeys(w) == {EffectiveKey(distro_data[w].url, found_files[w][i]) : i \in 1..Len(found_files[w])}

FindingsSoFar == SumOver([w \in Workers |-> Len(found_files[w])], Len(distro_data))

\* C3: in every reachable state matched + mismatched is at most the number
\* of Findings produced so far over all repositories, and every step that
\* changes matched or mismatched is taken for the effective folder name of
\* a Finding of the stepping worker, so a declared package without a
\* Finding increments neither.
C3_CountedOnlyFindings ==
  /\ [](reconciliation_report.matched + reconciliation_report.mismatched <= FindingsSoFar)
  /\ [][(reconciliation_report'.matched # reconciliation_report.matched
          \/ reconciliation_report'.mismatched # reconciliation_report.mismatched)
        => \E w \in Workers :
             /\ pc[w] = "loop_write" /\ pc'[w] = "loop"
             /\ LoopItems(w)[idx[w]].key \in FindingKeys(w)]_vars

\* A worker has counted a Finding while one of its declared packages has none.
C3_Witness ==
  \E w \in Workers :
    /\ idx[w] > 1
    /\ reconciliation_report.matched + reconciliation_report.mismatched > 0
    /\ \E p \in Range(distro_data[w].packages) : p \notin FindingKeys(w)

\* C4: at completion of a run in which every repository was processed and
\* produced at least one Finding, matched + mismatched = total.
C4_CountedEqualsTotal ==
  (main_pc = "done" /\ \A w \in Workers : pc[w] = "returned" /\ found_files[w] # <<>>) =>
    reconciliation_report.matched + reconciliation_report.mismatched
      = reconciliation_report.total

\* The Findings of worker w whose effective folder name is, or is not, declared.
DeclaredFindings(w, declared) ==
  {i \in 1..Len(found_files[w]) :
     IsDeclared(w, EffectiveKey(distro_data[w].url, found_files[w][i])) = declared}

\* C5: for a repository whose tree was fetched, every Finding increments
\* exactly one counter by one: matched when its effective folder name is
\* declared, mismatched otherwise.
C5_OneIncrementPerFinding ==
  \A w \in Workers :
    pc[w] \in {"total_write", "append", "returned"} /\ distro_data[w].url # <<>> =>
      /\ Attempted(w).matched = Cardinality(DeclaredFindings(w, TRUE))
      /\ Attempted(w).mismatched = Cardinality(DeclaredFindings(w, FALSE))

FalsyUrl == {w \in Workers : distro_data[w].url = <<>>}

\* C6: an entry with a falsy url increments unmatched by one, fetches no
\* tree, writes no output line and raises nothing, and no other entry
\* increments unmatched: at completion unmatched is the number of entries
\* with a falsy url.
C6_UnmatchedCountsFalsyUrls ==
  /\ \A w \in FalsyUrl :
       /\ pc[w] # "raised"
       /\ found_files[w] = <<>> /\ dependencies[w] = <<>>
       /\ \A i \in 1..Len(output_file) : output_file[i].by # w
  /\ main_pc = "done" => reconciliation_report.unmatched = Cardinality(FalsyUrl)

\* The part of an output line before its first " => ".
LineKey(text) ==
  LET starts == {i \in 1..(Len(text) - Len(ARROW) + 1) : SubSeq(text, i, i + Len(ARROW) - 1) = ARROW}
      first == CHOOSE i \in starts : \A j \in starts : i <= j
  IN SubSeq(text, 1, first - 1)

\* The repository's own name: the last path segment of its url, without a
\* trailing ".git".
RepoName(url) ==
  LET seg == Last(Split(url, "/"))
      n == Len(seg) - Len(DOT_GIT)
  IN IF n >= 0 /\ SubSeq(seg, n + 1, Len(seg)) = DOT_GIT THEN SubSeq(seg, 1, n) ELSE seg

\* C7: a run on a manifest of one repository whose fetched tree has the
\* manifest file at the root leaves exactly one output line, keyed by the
\* repository's own name.
C7_RootFileKeyedByRepoName ==
  (/\ main_pc = "done"
   /\ Len(distro_data) = 1
   /\ pc[1] = "returned"
   /\ \E i \in 1..Len(found_files[1]) : found_files[1][i].path = PACKAGE_XML
   /\ PACKAGE_XML \in Range(distro_data[1].files)) =>
    /\ Len(output_file) = 1
    /\ LineKey(output_file[1].text) = RepoName(distro_data[1].url)

\* Whether segs is the beginning of the segments of a path git listed for w.
IsListedPrefix(w, segs) ==
  \E i \in 1..Len(distro_data[w].files) :
    LET whole == Split(distro_data[w].files[i], "/") IN
    Len(segs) <= Len(whole) /\ SubSeq(whole, 1, Len(segs)) = segs

\* C8: every Finding of find_all_files_in_tree has as folder_name the name
\* of the immediate parent directory of the match only (the empty string at
\* the tree root) and as path the full slash-joined path from the root.
C8_FolderIsImmediateParent ==
  \A w \in Workers : \A i \in 1..Len(found_files[w]) :
    LET segs == Split(found_files[w][i].path, "/") IN
    /\ Last(segs) = PACKAGE_XML
    /\ IsListedPrefix(w, segs)
    /\ found_files[w][i].folder_name = IF Len(segs) = 1 THEN <<>> ELSE segs[Len(segs) - 1]

\* One worker found a/b/package.xml, in folder b, and a root-level match.
C8_Witness ==
  \E w \in Workers : \E i, j \in 1..Len(found_files[w]) :
    /\ found_files[w][i].path = DIR_A \o SLASH \o DIR_B \o SLASH \o PACKAGE_XML
    /\ found_files[w][i].folder_name = DIR_B
    /\ found_files[w][j].path = PACKAGE_XML
    /\ found_files[w][j].folder_name = <<>>

\* Whether git listed for w a file whose name is the target filename.
HasTargetFile(w) ==
  \E i \in 1..Len(distro_data[w].files) : Last(Split(distro_data[w].files[i], "/")) = PACKAGE_XML

\* C9: processing a repository with a truthy url whose tree holds no file
\* named like the target filename yields no Finding, increments neither
\* matched nor mismatched, writes no output line, and still adds the
\* declared-package count to total.
C9_NoTargetNoFindings ==
  \A w \in Workers :
    (distro_data[w].url # <<>> /\ ~HasTargetFile(w)) =>
      /\ found_files[w] = <<>>
      /\ Attempted(w).matched = 0 /\ Attempted(w).mismatched = 0
      /\ \A i \in 1..Len(output_file) : output_file[i].by # w
      /\ pc[w] = "returned" => Attempted(w).total = Len(distro_data[w].packages)

\* C10: the scratch directory is removed only when every submitted unit of
\* work has finished and none is still to run, also when a worker raised,
\* and the report is printed only after the removal.
C10_RemovedAfterAllFinished ==
  /\ temp_dir = "removed" => AllFinished
  /\ main_pc \in {"report", "done"} => temp_dir = "removed"
  /\ printed # NotPrinted => temp_dir = "removed"

\* A run ended with the directory removed and the report printed although
\* one worker raised and another returned.
C10_Witness ==
  /\ main_pc = "done" /\ temp_dir = "removed" /\ printed # NotPrinted
  /\ \E w, v \in Workers : pc[w] = "raised" /\ pc[v] = "returned"

\* C11: exactly one unit of work is submitted per manifest entry (none
\* before the run begins, one for every entry once the submit loop is left),
\* and at no point are more than max_threads units of work being executed.
C11_OnePerEntryAtMostMaxThreads ==
  /\ Cardinality(Running) <= max_threads
  /\ main_pc = "start" => \A w \in Workers : pc[w] = "unsubmitted"
  /\ main_pc \in {"finally", "report", "done"} => \A w \in Workers : pc[w] # "unsubmitted"

\* The pool is full and a submitted unit of work waits in its queue.
C11_Witness ==
  /\ Cardinality(Running) = max_threads
  /\ \E w \in Workers : pc[w] = "queued"

\* The lines of the output file that worker w wrote, in file order.
LinesBy(w) == SelectSeq(output_file, LAMBDA line : line.by = w)

\* C12: under every interleaving of the workers' appends the lines of one
\* worker form one contiguous block of the file (once the file passes from
\* one worker's lines to another's, no line of the first follows), and no
\* line is lost or torn: what a returned worker wrote is its batch, line
\* for line.
C12_BatchIsContiguous ==
  /\ \A j \in 1..(Len(output_file) - 1) :
       output_file[j].by # output_file[j + 1].by =>
         \A k \in (j + 2)..Len(output_file) : output_file[k].by # output_file[j].by
  /\ \A w \in Workers :
       pc[w] = "returned" /\ fetch_outcome[w] = "ok" =>
         [i \in 1..Len(LinesBy(w)) |-> LinesBy(w)[i].text] = ResultLines(w)

\* No line of the output file was written by worker w.
NoLineBy(w) == \A i \in 1..Len(output_file) : output_file[i].by # w

\* C13: when the tree listing of a repository exits non-zero the worker
\* treats the no-tree sentinel as zero findings: it raises nothing,
\* increments neither matched nor mismatched and writes no output line.
C13_ListingFailureIsZeroFindings ==
  \A w \in Workers :
    fetch_outcome[w] = "ls_tree_failed" =>
      /\ pc[w] # "raised"
      /\ found_files[w] = <<>> /\ dependencies[w] = <<>>
      /\ Attempted(w).matched = 0 /\ Attempted(w).mismatched = 0
      /\ key_value_results[w] = <<>>
      /\ NoLineBy(w)

\* A run is over in which the listing failed for a repository that does
\* hold the target file, and its worker returned.
C13_Witness ==
  /\ main_pc = "done"
  /\ \E w \in Workers :
       fetch_outcome[w] = "ls_tree_failed" /\ HasTargetFile(w) /\ pc[w] = "returned"

\* The workers whose clone raised, and those whose listing failed.
CloneFailed == {w \in Workers : fetch_outcome[w] \in {"clone_raised", "dir_exists"}}

ListingFailed == {w \in Workers : fetch_outcome[w] = "ls_tree_failed"}

\* C14 as stated: a manifest entry whose tree fetch fails (the clone raises,
\* or the listing exits non-zero) increments none of the four counters, so
\* in a run where every entry's fetch failed all four counters stay zero.
C14_FailedFetchCountsNothing ==
  (\A w \in Workers : w \in CloneFailed \cup ListingFailed) =>
    reconciliation_report = ZeroReport

\* C14, amended: an entry whose clone raises increments none of the four
\* counters; an entry whose listing exits non-zero increments none of
\* matched, mismatched and unmatched, but still adds its declared-package
\* count to total (line 131).  In a run where every entry's fetch failed,
\* matched, mismatched and unmatched stay zero, and total is non-zero exactly
\* when a worker whose listing failed has passed line 131.
C14_FailedFetchCountsOnlyTotal ==
  /\ \A w \in CloneFailed :
       pc[w] = "raised" /\ \A c \in Counters : Attempted(w)[c] = 0
  /\ \A w \in ListingFailed :
       Attempted(w).matched = 0 /\ Attempted(w).mismatched = 0 /\ Attempted(w).unmatched = 0
  /\ (\A w \in Workers : w \in CloneFailed \cup ListingFailed) =>
       /\ reconciliation_report.matched = 0
       /\ reconciliation_report.mismatched = 0
       /\ reconciliation_report.unmatched = 0
       /\ reconciliation_report.total > 0
            <=> \E w \in ListingFailed : pc[w] \in {"append", "returned"}

\* A run is over in which one entry's clone raised and another's listing
\* failed.
C14_Witness ==
  /\ main_pc = "done"
  /\ \A w \in Workers : w \in CloneFailed \cup ListingFailed
  /\ CloneFailed # {} /\ ListingFailed # {}
  /\ reconciliation_report.total > 0

\* C15: if every worker's fetch returns or raises, a run terminates and
\* prints the report, also when workers raise: the exception stays with its
\* worker, and every other unit of work has run to completion by then.
C15_TerminatesAndReports ==
  <>(main_pc = "done" /\ printed # NotPrinted /\ AllFinished)

\* The report is printed after an earlier entry's worker raised and a later
\* entry's worker fetched its tree and returned.
C15_Witness ==
  /\ main_pc = "done" /\ printed = reconciliation_report
  /\ \E w, v \in Workers :
       w < v /\ fetch_outcome[w] = "clone_raised" /\ fetch_outcome[v] = "ok" /\ pc[v] = "returned"

\* The lines a worker writes for entry e when its fetch succeeds.
LinesOf(e) ==
  LET deps == get_package_dependencies(e.url, fetch_tree_with_git(e.files, e.version, "ok")) IN
  {FormatLine(deps[i].key, deps[i].value) :
     i \in {j \in 1..Len(deps) : deps[j].key \in Range(e.packages)}}

\* The lines left by the run that processes the entries from i on one after
\* another in manifest order, every git subprocess succeeding where it can,
\* when the scratch directory already holds the subdirectories dirs.
RECURSIVE SequentialLines(_, _)
SequentialLines(i, dirs) ==
  IF i > Len(distro_data) THEN {}
  ELSE LET e == distro_data[i]
           d == RepoDownloadPath(e.url, e.version)
       IN IF e.url = <<>> \/ d \in dirs THEN SequentialLines(i + 1, dirs)
          ELSE LinesOf(e) \cup SequentialLines(i + 1, dirs \cup {d})

\* C16: two runs on the same manifest and the same repository trees leave
\* the output file with the same set of lines, whatever the interleaving
\* and the earlier content of the file: every completed run in which no git
\* subprocess failed for a reason of its own leaves the set of lines of the
\* run that takes the entries one after another.
C16_LinesIndependentOfScheduling ==
  (/\ main_pc = "done"
   /\ \A w \in Workers : fetch_outcome[w] \in {"none", "ok", "dir_exists"}) =>
    {output_file[i].text : i \in 1..Len(output_file)} = SequentialLines(1, {})

\* C17: no two workers of one run clone into the same scratch subdirectory:
\* the names built for any two manifest entries differ.
C17_DistinctScratchSubdirectories ==
  \A w, v \in Workers :
    (w # v /\ repo_download_path[w] # <<>> /\ repo_download_path[v] # <<>>) =>
      repo_download_path[w] # repo_download_path[v]

\* The paths git listed for w whose last segment is the target filename.
ListedTargets(w) ==
  {distro_data[w].files[i] :
     i \in {j \in 1..Len(distro_data[w].files) :
              Last(Split(distro_data[w].files[j], "/")) = PACKAGE_XML}}

\* C18: building the path tree of a listing and searching it yields exactly
\* one Finding for each listed path whose last segment is the target
\* filename, whatever the directories on the path are named: none is
\* skipped, none is reported twice, nothing else is reported.
C18_OneFindingPerListedTarget ==
  \A w \in Workers :
    fetch_outcome[w] = "ok" =>
      /\ {found_files[w][i].path : i \in 1..Len(found_files[w])} = ListedTargets(w)
      /\ Len(found_files[w]) = Cardinality(ListedTargets(w))

\* C19: the repo name derived from a url is its last path segment without a
\* trailing ".git" and otherwise unchanged, and the owner is the
\* second-to-last segment: the scratch subdirectory a worker names is built
\* from these two.
C19_RepoNameIsLastSegmentLessSuffix ==
  \A w \in Workers :
    repo_download_path[w] # <<>> =>
      LET segs == Split(distro_data[w].url, "/") IN
      repo_download_path[w] =
        segs[Len(segs) - 1] \o DASH \o RepoName(distro_data[w].url) \o DASH
          \o distro_data[w].version \o DASH \o BARE

\* C20: at completion the output file has as many lines as the matched
\* counter says, and the key of every line is a declared package of the
\* manifest entry whose worker wrote it.
C20_LinesEqualMatched ==
  main_pc = "done" =>
    /\ Len(output_file) = reconciliation_report.matched
    /\ \A i \in 1..Len(output_file) :
         /\ output_file[i].by \in Workers
         /\ IsDeclared(output_file[i].by, LineKey(output_file[i].text))

====
